---- MODULE Spec2Model ----
(***************************************************************************)
(* The mangrove report server (main.py): the users and images tables of    *)
(* the SQLite database, the request handlers that read and write them,     *)
(* each handler running on its own connection, and the label normaliser    *)
(* that decides whether an upload is stored.                               *)
(*                                                                         *)
(* A connection of Python's sqlite3 module opens a transaction implicitly  *)
(* before an INSERT, UPDATE or DELETE and not before a SELECT.  The first  *)
(* write takes SQLite's RESERVED lock (one writer per database), the       *)
(* writes stay in the connection's own cache until commit, and closing a   *)
(* connection that has not committed rolls its transaction back.           *)
(***************************************************************************)
EXTENDS Integers, Sequences, FiniteSets, TLC

(* ------------------------------ bounds --------------------------------- *)

\* rows the images table may ever receive (caps the AUTOINCREMENT counter)
MaxImages == 2

\* largest credit_score an approval may produce
MaxCredit == 2

\* request handlers that may be running at the same time
Procs == {"r1", "r2"}

\* phone numbers a registration may carry ("" is a missing form field); the
\* UNIQUE constraint makes this the number of users there can be
Phones == {"p1"}

\* user ids an upload's form may carry; 0 is a missing form field
UserIds == 0 .. Cardinality(Phones)

ImageIds == 1 .. MaxImages

(* --------------------------- text as code sees it ---------------------- *)

\* A Python str is a sequence of one-character strings.
Lower == <<"a","b","c","d","e","f","g","h","i","j","k","l","m",
           "n","o","p","q","r","s","t","u","v","w","x","y","z">>
Upper == <<"A","B","C","D","E","F","G","H","I","J","K","L","M",
           "N","O","P","Q","R","S","T","U","V","W","X","Y","Z">>

Whitespace == {" ", "\t", "\n", "\r"}

\* str.upper() on one character
UpperChar(c) ==
    IF \E i \in 1 .. Len(Lower) : Lower[i] = c
    THEN Upper[CHOOSE i \in 1 .. Len(Lower) : Lower[i] = c]
    ELSE c

\* str.upper()
StrUpper(s) == [i \in 1 .. Len(s) |-> UpperChar(s[i])]

\* str.lower() on one character
LowerChar(c) ==
    IF \E i \in 1 .. Len(Upper) : Upper[i] = c
    THEN Lower[CHOOSE i \in 1 .. Len(Upper) : Upper[i] = c]
    ELSE c

\* str.lower()
StrLower(s) == [i \in 1 .. Len(s) |-> LowerChar(s[i])]

\* str.replace("-", "_")
ReplaceHyphen(s) == [i \in 1 .. Len(s) |-> IF s[i] = "-" THEN "_" ELSE s[i]]

\* str.strip(): drop leading and trailing whitespace
StrStrip(s) ==
    LET keep == {i \in 1 .. Len(s) : s[i] \notin Whitespace}
    IN  IF keep = {} THEN <<>>
        ELSE LET lo == CHOOSE i \in keep : \A j \in keep : i <= j
                 hi == CHOOSE i \in keep : \A j \in keep : j <= i
             IN  SubSeq(s, lo, hi)

\* Python's  sub in s
Contains(sub, s) ==
    \E k \in 0 .. (Len(s) - Len(sub)) : SubSeq(s, k + 1, k + Len(sub)) = sub

(* ------------------------------ the normaliser ------------------------- *)

DirectCodes == { <<"D","E","F">>, <<"P","O","L">>, <<"E","N","C">>,
                 <<"E","C","O">>, <<"O","T","H">> }

NotRelevantSpellings ==
    { <<"N","O","T","_","R","E","L","E","V","A","N","T">>,
      <<"N","O","T","_","R","E","L","E","V","A","N","T","_">>,
      <<"N","O","T","_","R","E","L","E","V","A","N","T","_","_">> }

\* (mutant) the code is returned in the letter case of ALLOWED_CLASSES' last
\* entry: first letter upper, the rest lower
CodeOfCapitalised(v) == v[1] \o LowerChar(v[2]) \o LowerChar(v[3])

\* the code a three-letter sequence spells
CodeOf(v) == v[1] \o v[2] \o v[3]

ALLOWED_CLASSES == {"DEF", "POL", "ENC", "ECO", "OTH", "Not_relevant"}

AnyIn(subs, v) == \E sub \in subs : Contains(sub, v)

DefWords == { <<"D","E","F","O","R">>, <<"B","U","R","N">>, <<"L","O","G">> }
PolWords == { <<"P","O","L","L","U","T">>, <<"W","A","S","T","E">>,
              <<"S","E","W","A","G","E">>, <<"O","I","L">> }
EncWords == { <<"E","N","C","R","O","A","C","H">>,
              <<"C","O","N","S","T","R","U","C","T">>,
              <<"L","A","N","D","F","I","L","L">>,
              <<"A","Q","U","A","C","U","L","T","U","R","E">> }
EcoWords == { <<"E","C","O">>, <<"S","T","R","E","S","S">>, <<"P","E","S","T">>,
              <<"A","L","G","A">>, <<"D","I","E">> }
OthWords == { <<"O","T","H","E","R">>,
              <<"U","N","S","P","E","C","I","F","I","E","D">>,
              <<"P","O","A","C","H">>, <<"F","I","R","E">> }

\* _normalize_class(label)
NormalizeClass(label) ==
    IF label = <<>> THEN "Not_relevant"
    ELSE LET v == ReplaceHyphen(StrUpper(StrStrip(label)))
         IN  IF v \in DirectCodes THEN CodeOf(v)
             ELSE IF v \in NotRelevantSpellings THEN "Not_relevant"
             ELSE IF AnyIn(DefWords, v) THEN "DEF"
             ELSE IF AnyIn(PolWords, v) THEN "POL"
             ELSE IF AnyIn(EncWords, v) THEN "ENC"
             ELSE IF AnyIn(EcoWords, v) THEN "ECO"
             ELSE IF AnyIn(OthWords, v) THEN "OTH"
             ELSE "Not_relevant"

(* ------------------------------ the database --------------------------- *)

\* credit_score INTEGER has no default: a new user's score is SQL NULL
NULL == -1

\* COALESCE(x, d)
Coalesce(x, d) == IF x = NULL THEN d ELSE x

\* an image id with no row (never inserted, or deleted)
NoRow == [deleted |-> TRUE]

\* the tables after CREATE TABLE IF NOT EXISTS on a fresh file:
\* users in userid order, images by image_id, and the AUTOINCREMENT
\* high-water mark of images (sqlite_sequence)
EmptyDb == [users |-> <<>>,
            images |-> [i \in ImageIds |-> NoRow],
            image_seq |-> 0]

HasImage(d, id) == id \in ImageIds /\ d.images[id] # NoRow

HasUser(d, uid) == uid \in 1 .. Len(d.users)

\* (mutant) INTEGER PRIMARY KEY without AUTOINCREMENT: one past the largest
\* id the table holds now
NextImageIdOfRowid(d) ==
    IF \E i \in ImageIds : HasImage(d, i)
    THEN 1 + CHOOSE i \in ImageIds :
                 HasImage(d, i) /\ \A j \in ImageIds : HasImage(d, j) => j <= i
    ELSE 1

\* image_id INTEGER PRIMARY KEY AUTOINCREMENT: one past the largest id the
\* table has ever held, deleted rows included
NextImageId(d) == d.image_seq + 1

\* INSERT INTO users (name, phone_number, password): userid is the next id,
\* credit_score is left NULL
InsertUser(d, phone) ==
    [d EXCEPT !.users = Append(@, [phone_number |-> phone, credit_score |-> NULL])]

\* phone_number TEXT NOT NULL UNIQUE
PhoneTaken(d, phone) == \E u \in 1 .. Len(d.users) : d.users[u].phone_number = phone

\* INSERT INTO images (..., llm_classification, ..., is_useful, captured_by_userid)
InsertImage(d, classification, is_useful_status, user_id) ==
    [d EXCEPT !.images[NextImageId(d)] =
                  [llm_classification |-> classification,
                   is_useful |-> is_useful_status,
                   captured_by_userid |-> user_id],
              !.image_seq = NextImageId(d)]

\* (mutant) the status is bumped instead of set
UpdateIsUsefulIncrements(d, id) ==
    IF HasImage(d, id) THEN [d EXCEPT !.images[id].is_useful = @ + 1] ELSE d

\* UPDATE images SET is_useful = 1 WHERE image_id = ?
UpdateIsUseful(d, id) ==
    IF HasImage(d, id) THEN [d EXCEPT !.images[id].is_useful = 1] ELSE d

\* UPDATE users SET credit_score = COALESCE(credit_score, 0) + 1 WHERE userid = ?
UpdateCredit(d, uid) ==
    IF HasUser(d, uid)
    THEN [d EXCEPT !.users[uid].credit_score = Coalesce(@, 0) + 1]
    ELSE d

\* (mutant) rejection is recorded as a status instead of deleting the row
DeleteImageMarksRejected(d, id) ==
    IF HasImage(d, id) THEN [d EXCEPT !.images[id].is_useful = 2] ELSE d

\* (mutant) the DELETE also takes the submitter's other reports
DeleteImageOfSubmitter(d, id) ==
    IF HasImage(d, id)
    THEN [d EXCEPT !.images =
             [i \in ImageIds |->
                 IF /\ HasImage(d, i)
                    /\ d.images[i].captured_by_userid = d.images[id].captured_by_userid
                 THEN NoRow ELSE d.images[i]]]
    ELSE d

\* (mutant) the rejection also takes back the submitter's credit
DeleteImageRevokesCredit(d, id) ==
    IF HasImage(d, id)
    THEN LET uid == d.images[id].captured_by_userid
         IN  IF HasUser(d, uid)
             THEN [d EXCEPT !.images[id] = NoRow, !.users[uid].credit_score = 0]
             ELSE [d EXCEPT !.images[id] = NoRow]
    ELSE d

\* DELETE FROM images WHERE image_id = ?
DeleteImage(d, id) ==
    IF HasImage(d, id) THEN [d EXCEPT !.images[id] = NoRow] ELSE d

\* (mutant) rowcount is not consulted: the DELETE always counts as a hit
DeleteRowcountAlwaysHit(d, id) == 1

\* cursor.rowcount after the DELETE
DeleteRowcount(d, id) == IF HasImage(d, id) THEN 1 ELSE 0

\* SELECT * FROM images WHERE is_useful = ?  (rows in image_id order)
RECURSIVE SelectCasesFrom(_, _, _)
SelectCasesFrom(d, status, id) ==
    IF id > MaxImages THEN <<>>
    ELSE (IF HasImage(d, id) /\ d.images[id].is_useful = status
          THEN << [image_id |-> id,
                   llm_classification |-> d.images[id].llm_classification,
                   is_useful |-> d.images[id].is_useful,
                   captured_by_userid |-> d.images[id].captured_by_userid] >>
          ELSE <<>>) \o SelectCasesFrom(d, status, id + 1)

SelectCases(d, status) == SelectCasesFrom(d, status, 1)

\* the image ids a listing returned
IdsOf(rows) == {rows[k].image_id : k \in 1 .. Len(rows)}

\* SELECT userid, name, COALESCE(credit_score, 0) as credit_score FROM users
UserRows(d) ==
    [u \in 1 .. Len(d.users) |->
        [userid |-> u, credit_score |-> Coalesce(d.users[u].credit_score, 0)]]

\* ORDER BY credit_score DESC
SortedDesc(rows) ==
    \A k \in 1 .. Len(rows) - 1 : rows[k].credit_score >= rows[k + 1].credit_score

\* the orders in which the sorted SELECT may return the users (ties are the
\* engine's choice)
SelectUsers(d) ==
    LET rows == UserRows(d)
        n == Len(rows)
        perms == {f \in [1 .. n -> 1 .. n] : \A a, b \in 1 .. n : f[a] = f[b] => a = b}
    IN  {r \in {[k \in 1 .. n |-> rows[f[k]]] : f \in perms} : SortedDesc(r)}

(* ------------------------------ the classifier ------------------------- *)

\* classification strings the extractor may hand to the normaliser
RawLabels == { <<"D","E","F">>,
               <<" ","D","e","f","o","r","e","s","t","a","t","i","o","n","\n">>,
               <<"N","o","t","_","r","e","l","e","v","a","n","t">>,
               <<"n","o","t","-","r","e","l","e","v","a","n","t">>,
               <<"s","e","l","f","i","e">>,
               <<>> }

\* what the model call may come to: a transport failure, or a reply whose
\* extracted classification is one of RawLabels
ModelOutcomes == {[failed |-> TRUE, label |-> <<>>]}
                     \cup {[failed |-> FALSE, label |-> l] : l \in RawLabels}

\* the normaliser's answer for each of these labels
ClassOfLabel == [l \in RawLabels |-> NormalizeClass(l)]

\* analyze_image_with_gemini: an error result, or the normalised class
AnalyzeImage(outcome) ==
    IF outcome.failed
    THEN [error |-> TRUE, classification |-> ""]
    ELSE [error |-> FALSE, classification |-> ClassOfLabel[outcome.label]]

\* (mutant) the test compares with the upper-cased spelling
IsDiscardedUpperCase(classification) == classification = "NOT_RELEVANT"

\* upload_image's test for an image that is not stored
IsDiscarded(classification) == classification = "Not_relevant"

\* is_useful_status = 0: a new case is pending
PendingStatus == 0

(* ------------------------------ the state ------------------------------ *)

VARIABLES
    db,                 \* the committed database, what every connection reads
    lock,               \* the connection holding the write lock, or NoProc
    tx,                 \* tx[p]: the uncommitted database of p's open transaction
    pc,                 \* pc[p]: where handler p is
    image_id,           \* approve_case_api / reject_case_api: the path parameter
    user_id_to_credit,  \* approve_case_api: the submitter its SELECT read
    rowcount,           \* reject_case_api: cursor.rowcount after the DELETE
    seen_is_useful,     \* history: is_useful of the row when approve's SELECT ran
    resp,               \* the response the last step sent, NoResp if it sent none
    call,               \* analyze_image_with_gemini: what the model call came to
    cpc,                \* analyze_image_with_gemini: where it is
    parsed,             \* analyze_image_with_gemini: what the extractor returned
    analysis,           \* analyze_image_with_gemini: what it returns
    label,              \* _normalize_class: its argument
    category            \* _normalize_class: its return value, NoCategory before

\* the variables of one run of analyze_image_with_gemini on its own
classify_vars == <<call, cpc, parsed, analysis>>

\* the variables of one call of _normalize_class on its own
normalize_vars == <<label, category>>

\* the variables of the server
server_vars == <<db, lock, tx, pc, image_id, user_id_to_credit, rowcount,
                 seen_is_useful, resp>>

vars == <<db, lock, tx, pc, image_id, user_id_to_credit, rowcount,
          seen_is_useful, resp, classify_vars, normalize_vars>>

NoProc == "none"

NoTx == [open |-> FALSE]

NoResp == [route |-> "", code |-> 0, body |-> <<>>]

Response(route, code, body) == [route |-> route, code |-> code, body |-> body]

NoCategory == "none"

\* no run of analyze_image_with_gemini on its own is under way
ClassifyOff ==
    /\ call = [kind |-> "none", text |-> <<>>]
    /\ cpc = "off"
    /\ parsed = <<>>
    /\ analysis = <<>>

\* no call of _normalize_class on its own is under way
NormalizeOff ==
    /\ label = <<>>
    /\ category = NoCategory

\* the server as it starts: the database init_db() has just created, no
\* request in progress
ServerInit ==
    /\ db = EmptyDb
    /\ lock = NoProc
    /\ tx = [p \in Procs |-> NoTx]
    /\ pc = [p \in Procs |-> "idle"]
    /\ image_id = [p \in Procs |-> 0]
    /\ user_id_to_credit = [p \in Procs |-> 0]
    /\ rowcount = [p \in Procs |-> 0]
    /\ seen_is_useful = [p \in Procs |-> NULL]
    /\ resp = NoResp

Init ==
    /\ ServerInit
    /\ ClassifyOff
    /\ NormalizeOff

(* ------------------------------ connections ---------------------------- *)

\* (mutant) no writer excludes another
CanWriteAlways(l, p) == TRUE

\* a connection may start writing when no other connection holds the lock
CanWrite(l, p) == l \in {NoProc, p}

\* a write that still meets another connection's lock when the busy timeout
\* runs out raises sqlite3.OperationalError
IsBusy(l, p) == ~CanWrite(l, p)

\* conn.commit(): the transaction's database becomes the committed one
Commit(committed, t) == t

\* (mutant) closing the connection keeps what the transaction had written
CloseUncommittedKeeps(committed, t) == t

\* conn.close() with a transaction open: its writes are discarded
CloseUncommitted(committed, t) == committed

\* handler p returns its response; its locals are gone and the worker is
\* free for the next request
Finish(p, route, code, body) ==
    /\ resp' = Response(route, code, body)
    /\ pc' = [pc EXCEPT ![p] = "idle"]
    /\ image_id' = [image_id EXCEPT ![p] = 0]
    /\ user_id_to_credit' = [user_id_to_credit EXCEPT ![p] = 0]
    /\ rowcount' = [rowcount EXCEPT ![p] = 0]
    /\ seen_is_useful' = [seen_is_useful EXCEPT ![p] = NULL]

(* ------------------------------ /adduser ------------------------------- *)

\* add_new_user: phone "" stands for a request with a field missing
add_new_user(p, phone) ==
    /\ pc[p] = "idle"
    /\ IF phone = ""
       THEN /\ Finish(p, "adduser", 400, <<>>)
            /\ UNCHANGED db
       ELSE IF IsBusy(lock, p)
       THEN /\ Finish(p, "adduser", 500, <<>>)
            /\ UNCHANGED db
       ELSE IF PhoneTaken(db, phone)
       THEN /\ Finish(p, "adduser", 409, <<>>)
            /\ UNCHANGED db
       ELSE /\ db' = Commit(db, InsertUser(db, phone))
            /\ Finish(p, "adduser", 201, <<>>)
    /\ UNCHANGED <<lock, tx>>
    /\ UNCHANGED <<classify_vars, normalize_vars>>

(* ------------------------------ /upload_image -------------------------- *)

\* the multipart forms an upload may carry: with or without the image file,
\* user_id 0 standing for a missing user_id or geo_location
Forms == [has_file : BOOLEAN, user_id : UserIds]

\* the rest of upload_image once the model call has come back
upload_analysed(p, user_id, analysis_result) ==
    LET classification == analysis_result.classification
    IN  IF analysis_result.error
        THEN /\ Finish(p, "upload_image", 500, <<>>)
             /\ UNCHANGED db
        ELSE IF IsDiscarded(classification)
        THEN /\ Finish(p, "upload_image", 200, <<classification>>)
             /\ UNCHANGED db
        ELSE IF IsBusy(lock, p)
        THEN /\ Finish(p, "upload_image", 500, <<>>)
             /\ UNCHANGED db
        ELSE /\ NextImageId(db) <= MaxImages
             /\ db' = Commit(db, InsertImage(db, classification, PendingStatus, user_id))
             /\ Finish(p, "upload_image", 201, <<NextImageId(db)>>)

upload_image(p, form) ==
    /\ pc[p] = "idle"
    /\ IF ~form.has_file \/ form.user_id = 0
       THEN /\ Finish(p, "upload_image", 400, <<>>)
            /\ UNCHANGED db
       ELSE \E outcome \in ModelOutcomes :
                upload_analysed(p, form.user_id, AnalyzeImage(outcome))
    /\ UNCHANGED <<lock, tx>>
    /\ UNCHANGED <<classify_vars, normalize_vars>>

(* ------------------------------ /cases/<status> ------------------------ *)

get_cases_api(p, status) ==
    /\ pc[p] = "idle"
    /\ Finish(p, "cases", 200, SelectCases(db, status))
    /\ UNCHANGED <<db, lock, tx>>
    /\ UNCHANGED <<classify_vars, normalize_vars>>

(* ------------------------------ /users --------------------------------- *)

get_all_users(p) ==
    /\ pc[p] = "idle"
    /\ \E users_list \in SelectUsers(db) : Finish(p, "users", 200, users_list)
    /\ UNCHANGED <<db, lock, tx>>
    /\ UNCHANGED <<classify_vars, normalize_vars>>

(* ------------------------------ /approve_case/<id> --------------------- *)

\* approvals that have read their submitter and not yet finished
Approving(uid) ==
    {q \in Procs : /\ pc[q] \in {"approve_update_images", "approve_update_users",
                                 "approve_commit"}
                   /\ user_id_to_credit[q] = uid}

\* the credit a user has in database d, 0 for none
CreditOf(d, uid) == IF HasUser(d, uid) THEN Coalesce(d.users[uid].credit_score, 0) ELSE 0

\* SELECT captured_by_userid FROM images WHERE image_id = ?, and the 404
approve_select(p, id) ==
    /\ pc[p] = "idle"
    /\ IF ~HasImage(db, id)
       THEN Finish(p, "approve_case", 404, <<id>>)
       ELSE LET result == db.images[id].captured_by_userid
            IN  /\ CreditOf(db, result) + Cardinality(Approving(result)) < MaxCredit
                /\ image_id' = [image_id EXCEPT ![p] = id]
                /\ user_id_to_credit' = [user_id_to_credit EXCEPT ![p] = result]
                /\ seen_is_useful' = [seen_is_useful EXCEPT ![p] = db.images[id].is_useful]
                /\ pc' = [pc EXCEPT ![p] = "approve_update_images"]
                /\ resp' = NoResp
                /\ UNCHANGED rowcount
    /\ UNCHANGED <<db, lock, tx>>
    /\ UNCHANGED <<classify_vars, normalize_vars>>

\* UPDATE images SET is_useful = 1: the connection's first write opens its
\* transaction on the committed database and takes the write lock
approve_update_images(p) ==
    /\ pc[p] = "approve_update_images"
    /\ CanWrite(lock, p)
    /\ lock' = p
    /\ tx' = [tx EXCEPT ![p] = UpdateIsUseful(db, image_id[p])]
    /\ pc' = [pc EXCEPT ![p] = "approve_update_users"]
    /\ resp' = NoResp
    /\ UNCHANGED <<db, image_id, user_id_to_credit, rowcount, seen_is_useful>>
    /\ UNCHANGED <<classify_vars, normalize_vars>>

\* the UPDATE timed out on another connection's lock: except Exception, 500
approve_busy(p) ==
    /\ pc[p] = "approve_update_images"
    /\ IsBusy(lock, p)
    /\ Finish(p, "approve_case", 500, <<image_id[p]>>)
    /\ UNCHANGED <<db, lock, tx>>
    /\ UNCHANGED <<classify_vars, normalize_vars>>

\* UPDATE users SET credit_score = COALESCE(credit_score, 0) + 1
approve_update_users(p) ==
    /\ pc[p] = "approve_update_users"
    /\ tx' = [tx EXCEPT ![p] = UpdateCredit(tx[p], user_id_to_credit[p])]
    /\ pc' = [pc EXCEPT ![p] = "approve_commit"]
    /\ resp' = NoResp
    /\ UNCHANGED <<db, lock, image_id, user_id_to_credit, rowcount, seen_is_useful>>
    /\ UNCHANGED <<classify_vars, normalize_vars>>

\* conn.commit() and the 200, whose message names the case and the user
approve_commit(p) ==
    /\ pc[p] = "approve_commit"
    /\ db' = Commit(db, tx[p])
    /\ tx' = [tx EXCEPT ![p] = NoTx]
    /\ lock' = NoProc
    /\ Finish(p, "approve_case", 200, <<image_id[p], user_id_to_credit[p]>>)
    /\ UNCHANGED <<classify_vars, normalize_vars>>

\* a statement or the commit raises after the first write (disk full, I/O
\* error): except Exception answers 500 and finally closes the connection
approve_fail(p) ==
    /\ pc[p] \in {"approve_update_users", "approve_commit"}
    /\ db' = CloseUncommitted(db, tx[p])
    /\ tx' = [tx EXCEPT ![p] = NoTx]
    /\ lock' = NoProc
    /\ Finish(p, "approve_case", 500, <<image_id[p]>>)
    /\ UNCHANGED <<classify_vars, normalize_vars>>

(* ------------------------------ /reject_case/<id> ---------------------- *)

\* DELETE FROM images WHERE image_id = ?  (no except clause: a raised error
\* becomes the framework's 500)
reject_delete(p, id) ==
    /\ pc[p] = "idle"
    /\ IF IsBusy(lock, p)
       THEN /\ Finish(p, "reject_case", 500, <<id>>)
            /\ UNCHANGED <<lock, tx>>
       ELSE /\ lock' = p
            /\ tx' = [tx EXCEPT ![p] = DeleteImage(db, id)]
            /\ image_id' = [image_id EXCEPT ![p] = id]
            /\ rowcount' = [rowcount EXCEPT ![p] = DeleteRowcount(db, id)]
            /\ pc' = [pc EXCEPT ![p] = "reject_commit"]
            /\ resp' = NoResp
            /\ UNCHANGED <<user_id_to_credit, seen_is_useful>>
    /\ UNCHANGED db
    /\ UNCHANGED <<classify_vars, normalize_vars>>

\* conn.commit(), then the 404 or the 200 by rowcount
reject_commit(p) ==
    /\ pc[p] = "reject_commit"
    /\ db' = Commit(db, tx[p])
    /\ tx' = [tx EXCEPT ![p] = NoTx]
    /\ lock' = NoProc
    /\ Finish(p, "reject_case", IF rowcount[p] = 0 THEN 404 ELSE 200, <<image_id[p]>>)
    /\ UNCHANGED <<classify_vars, normalize_vars>>

\* the commit raises: the error propagates and finally closes the connection
reject_fail(p) ==
    /\ pc[p] = "reject_commit"
    /\ db' = CloseUncommitted(db, tx[p])
    /\ tx' = [tx EXCEPT ![p] = NoTx]
    /\ lock' = NoProc
    /\ Finish(p, "reject_case", 500, <<image_id[p]>>)
    /\ UNCHANGED <<classify_vars, normalize_vars>>

(* ------------------------------ the server ----------------------------- *)

Next ==
    \E p \in Procs :
        \/ \E phone \in Phones \cup {""} : add_new_user(p, phone)
        \/ \E form \in Forms : upload_image(p, form)
        \/ \E status \in {0, 1} : get_cases_api(p, status)
        \/ get_all_users(p)
        \/ \E id \in 1 .. MaxImages + 1 : approve_select(p, id)
        \/ approve_update_images(p)
        \/ approve_busy(p)
        \/ approve_update_users(p)
        \/ approve_commit(p)
        \/ approve_fail(p)
        \/ \E id \in 1 .. MaxImages + 1 : reject_delete(p, id)
        \/ reject_commit(p)
        \/ reject_fail(p)

Spec == Init /\ [][Next]_vars

(* ------------------------------ the model's reply ---------------------- *)

\* The text of a reply is a sequence of lexemes [t, v]: v is the lexeme's
\* characters and t is "ws" (a run of whitespace), "fence" (three
\* backquotes), "word" (a run of letters), "str" (a closed string literal, v its content, which
\* holds no quote and no backslash), "num" (a number), "lit" (true, false,
\* null) or "punct" (one of { } [ ] : ,).
Tok(t, v) == [t |-> t, v |-> v]

IsPunct(tok, c) == tok.t = "punct" /\ tok.v = <<c>>

\* the values json.loads returns: a str, an int, True, False, None, a list
\* (items are values) or a dict (items are [key, val], in text order)
JStr(s) == [type |-> "str", s |-> s, items |-> <<>>]
JNum(s) == [type |-> "num", s |-> s, items |-> <<>>]
JLit(s) == [type |-> "lit", s |-> s, items |-> <<>>]
JList(items) == [type |-> "list", s |-> <<>>, items |-> items]
JDict(items) == [type |-> "dict", s |-> <<>>, items |-> items]

\* the outcome of reading a value off the front of a lexeme sequence
Read(val, rest) == [ok |-> TRUE, val |-> val, rest |-> rest]
NoRead == [ok |-> FALSE, val |-> JLit(<<>>), rest |-> <<>>]

\* json (strict) takes a string literal only if it holds no raw control
\* character
IsJsonString(tok) ==
    tok.t = "str" /\ \A i \in 1 .. Len(tok.v) : tok.v[i] \notin {"\t", "\n", "\r"}

RECURSIVE SkipWs(_)
SkipWs(toks) ==
    IF toks # <<>> /\ toks[1].t = "ws" THEN SkipWs(Tail(toks)) ELSE toks

RECURSIVE ParseValue(_), ParseElements(_, _), ParseMembers(_, _)

\* json's scanner: one value off the front of toks
ParseValue(toks) ==
    LET s == SkipWs(toks)
    IN  IF s = <<>> THEN NoRead
        ELSE IF s[1].t = "str"
        THEN IF IsJsonString(s[1]) THEN Read(JStr(s[1].v), Tail(s)) ELSE NoRead
        ELSE IF s[1].t = "num" THEN Read(JNum(s[1].v), Tail(s))
        ELSE IF s[1].t = "lit" THEN Read(JLit(s[1].v), Tail(s))
        ELSE IF IsPunct(s[1], "[")
        THEN LET a == SkipWs(Tail(s))
             IN  IF a # <<>> /\ IsPunct(a[1], "]")
                 THEN Read(JList(<<>>), Tail(a))
                 ELSE ParseElements(Tail(s), <<>>)
        ELSE IF IsPunct(s[1], "{")
        THEN LET a == SkipWs(Tail(s))
             IN  IF a # <<>> /\ IsPunct(a[1], "}")
                 THEN Read(JDict(<<>>), Tail(a))
                 ELSE ParseMembers(Tail(s), <<>>)
        ELSE NoRead

\* the elements of an array after "[" or ",", up to its "]"
ParseElements(toks, acc) ==
    LET v == ParseValue(toks)
    IN  IF ~v.ok THEN NoRead
        ELSE LET a == SkipWs(v.rest)
                 items == Append(acc, v.val)
             IN  IF a = <<>> THEN NoRead
                 ELSE IF IsPunct(a[1], ",") THEN ParseElements(Tail(a), items)
                 ELSE IF IsPunct(a[1], "]") THEN Read(JList(items), Tail(a))
                 ELSE NoRead

\* the members of an object after "{" or ",", up to its "}"
ParseMembers(toks, acc) ==
    LET k == SkipWs(toks)
    IN  IF k = <<>> \/ ~IsJsonString(k[1]) THEN NoRead
        ELSE LET c == SkipWs(Tail(k))
             IN  IF c = <<>> \/ ~IsPunct(c[1], ":") THEN NoRead
                 ELSE LET v == ParseValue(Tail(c))
                      IN  IF ~v.ok THEN NoRead
                          ELSE LET a == SkipWs(v.rest)
                                   items == Append(acc, [key |-> k[1].v, val |-> v.val])
                               IN  IF a = <<>> THEN NoRead
                                   ELSE IF IsPunct(a[1], ",")
                                   THEN ParseMembers(Tail(a), items)
                                   ELSE IF IsPunct(a[1], "}")
                                   THEN Read(JDict(items), Tail(a))
                                   ELSE NoRead

\* json.loads(s): the value s spells, or raised if s is not one JSON document
JsonLoads(toks) ==
    LET v == ParseValue(toks)
    IN  IF v.ok /\ SkipWs(v.rest) = <<>>
        THEN [raised |-> FALSE, val |-> v.val]
        ELSE [raised |-> TRUE, val |-> JLit(<<>>)]

\* dict.get(key, default): the last member of that key
DictGet(d, key, default) ==
    LET at == {i \in 1 .. Len(d.items) : d.items[i].key = key}
    IN  IF at = {} THEN default
        ELSE d.items[CHOOSE i \in at : \A j \in at : j <= i].val

\* Python's truth value of a json value (what "not label" tests)
Truthy(v) ==
    IF v.type = "str" THEN v.s # <<>>
    ELSE IF v.type = "num" THEN \E i \in 1 .. Len(v.s) : v.s[i] \notin {"0", ".", "-"}
    ELSE IF v.type = "lit" THEN v.s = <<"t","r","u","e">>
    ELSE v.items # <<>>

(* ------------------------------ the extractor -------------------------- *)

KeyClassification == <<"c","l","a","s","s","i","f","i","c","a","t","i","o","n">>

KeyReasoning == <<"r","e","a","s","o","n","i","n","g">>

\* str.strip() on a text: the whitespace at its two ends goes
TrimWs(toks) ==
    LET keep == {i \in 1 .. Len(toks) : toks[i].t # "ws"}
    IN  IF keep = {} THEN <<>>
        ELSE LET lo == CHOOSE i \in keep : \A j \in keep : i <= j
                 hi == CHOOSE i \in keep : \A j \in keep : j <= i
             IN  SubSeq(toks, lo, hi)

\* the first re.sub, of the opening fence, an optional "json" (any letter
\* case) and whitespace, on a text that starts with a fence
DropOpeningFence(s) ==
    LET a == Tail(s)
        tagged == /\ a # <<>>
                  /\ a[1].t = "word"
                  /\ Len(a[1].v) >= 4
                  /\ StrUpper(SubSeq(a[1].v, 1, 4)) = <<"J","S","O","N">>
        b == IF ~tagged THEN a
             ELSE IF Len(a[1].v) = 4 THEN Tail(a)
             ELSE <<Tok("word", SubSeq(a[1].v, 5, Len(a[1].v)))>> \o Tail(a)
    IN  SkipWs(b)

\* the second re.sub, of whitespace and a fence at the end of the text
DropClosingFence(s) ==
    IF s # <<>> /\ s[Len(s)].t = "fence"
    THEN LET body == SubSeq(s, 1, Len(s) - 1)
             keep == {i \in 1 .. Len(body) : body[i].t # "ws"}
         IN  IF keep = {} THEN <<>>
             ELSE SubSeq(body, 1, CHOOSE i \in keep : \A j \in keep : j <= i)
    ELSE s

\* if s starts with a fence: the two re.sub
StripFences(s) ==
    IF s # <<>> /\ s[1].t = "fence"
    THEN DropClosingFence(DropOpeningFence(s))
    ELSE s

\* re.search(r"\{.*\}", s, flags=re.DOTALL): from the first { to the last }
BraceBlock(s) ==
    LET opens == {i \in 1 .. Len(s) : IsPunct(s[i], "{")}
        first == CHOOSE i \in opens : \A j \in opens : i <= j
        closes == {j \in 1 .. Len(s) : IsPunct(s[j], "}") /\ j > first}
    IN  IF opens = {} \/ closes = {}
        THEN [found |-> FALSE, toks |-> <<>>]
        ELSE [found |-> TRUE,
              toks |-> SubSeq(s, first, CHOOSE j \in closes : \A k \in closes : k <= j)]

\* the lexeme ends with word, letter case ignored: "?word"? matches there
EndsWithWord(tok, word) ==
    /\ tok.t \in {"str", "word"}
    /\ Len(tok.v) >= Len(word)
    /\ StrUpper(SubSeq(tok.v, Len(tok.v) - Len(word) + 1, Len(tok.v))) = StrUpper(word)

\* \s*:\s*"(...)" after lexeme i: the string literal that follows the colon
ValueAfter(s, i) ==
    LET c == SkipWs(SubSeq(s, i + 1, Len(s)))
        v == SkipWs(Tail(c))
    IN  IF c # <<>> /\ IsPunct(c[1], ":") /\ v # <<>> /\ v[1].t = "str"
        THEN [found |-> TRUE, v |-> v[1].v]
        ELSE [found |-> FALSE, v |-> <<>>]

\* re.search of the field's pattern: its first match, whose group may be
\* empty only if may_be_empty
FieldSearch(s, word, may_be_empty) ==
    LET at == {i \in 1 .. Len(s) :
                  /\ EndsWithWord(s[i], word)
                  /\ ValueAfter(s, i).found
                  /\ may_be_empty \/ ValueAfter(s, i).v # <<>>}
    IN  IF at = {} THEN [found |-> FALSE, v |-> <<>>]
        ELSE ValueAfter(s, CHOOSE i \in at : \A j \in at : i <= j)

\* re.sub(r"\s+", " ", x)
RECURSIVE SquashWs(_)
SquashWs(x) ==
    IF x = <<>> THEN <<>>
    ELSE IF x[1] \in Whitespace
    THEN IF Len(x) > 1 /\ x[2] \in Whitespace
         THEN SquashWs(Tail(x))
         ELSE <<" ">> \o SquashWs(Tail(x))
    ELSE <<x[1]>> \o SquashWs(Tail(x))

\* the last-ditch result: the fields the two patterns found
RegexFields(s) ==
    LET m_cls == FieldSearch(s, KeyClassification, FALSE)
        m_reason == FieldSearch(s, KeyReasoning, TRUE)
        cls == IF m_cls.found
               THEN <<[key |-> KeyClassification, val |-> JStr(m_cls.v)]>>
               ELSE <<>>
        reason == IF m_reason.found
                  THEN <<[key |-> KeyReasoning, val |-> JStr(StrStrip(SquashWs(m_reason.v)))]>>
                  ELSE <<>>
    IN  JDict(cls \o reason)

\* _parse_gemini_json_text(text)
ParseGeminiJsonText(text) ==
    LET s == StripFences(TrimWs(text))
        whole == JsonLoads(s)
        m == BraceBlock(s)
        candidate == JsonLoads(m.toks)
    IN  IF ~whole.raised THEN whole.val
        ELSE IF m.found /\ ~candidate.raised THEN candidate.val
        ELSE RegexFields(s)

(* ------------------------------ analyze_image_with_gemini -------------- *)

Ws == Tok("ws", <<" ">>)
Nl == Tok("ws", <<"\n">>)
\* a code fence (three backquotes; its characters are not spelled out)
Fence == Tok("fence", <<>>)
P(c) == Tok("punct", <<c>>)
Str(v) == Tok("str", v)
Word(v) == Tok("word", v)
Null == Tok("lit", <<"n","u","l","l">>)
True == Tok("lit", <<"t","r","u","e">>)

\* "key": value
Field(key, value) == <<Str(key), P(":"), Ws>> \o value

\* the classification values a reply's object may carry
ClassValues ==
    { <<Str(<<"D","E","F">>)>>,
      <<Str(<<"p","o","l","l","u","t","i","o","n">>)>>,
      <<Str(<<"s","e","l","f","i","e">>)>>,
      <<Str(<<>>)>>,
      <<Tok("num", <<"5">>)>>,
      <<Tok("num", <<"0">>)>>,
      <<Null>>,
      <<True>>,
      <<P("["), Str(<<"D","E","F">>), P("]")>>,
      <<P("["), P("]")>>,
      <<P("{"), Str(<<"c","o","d","e">>), P(":"), Str(<<"D","E","F">>), P("}")>> }

\* the reasoning values a reply's object may carry
ReasonValues ==
    { <<Str(<<"c","u","t"," ","\n"," ","t","r","e","e","s">>)>>,
      <<Str(<<"o","i","l">>)>>,
      <<Str(<<" ">>)>>,
      <<Null>>,
      <<Tok("num", <<"5">>)>>,
      <<P("["), Str(<<"c","u","t">>), P("]")>> }

\* what the model may say between the wrappings: the object the prompt asks
\* for with any of these values, the same with a trailing comma, with bare
\* keys, cut short, with a field or both missing, a JSON document that is
\* not an object, prose, stray braces, nothing
Bodies ==
    {<<P("{")>> \o Field(KeyClassification, c) \o <<P(","), Ws>>
                \o Field(KeyReasoning, r) \o <<P("}")>> :
         c \in ClassValues, r \in ReasonValues}
    \cup {<<P("{")>> \o Field(KeyClassification, c) \o <<P(","), Ws>>
                     \o Field(KeyReasoning, r) \o <<P(","), P("}")>> :
              c \in ClassValues, r \in ReasonValues}
    \cup {<<P("{"), Word(KeyClassification), P(":"), Ws>> \o c \o <<P("}")>> :
              c \in ClassValues}
    \cup {<<P("{")>> \o Field(KeyClassification, c) \o <<P(",")>> : c \in ClassValues}
    \cup {<<P("{")>> \o Field(KeyClassification, c) \o <<P("}")>> : c \in ClassValues}
    \cup {<<P("{")>> \o Field(KeyReasoning, r) \o <<P("}")>> : r \in ReasonValues}
    \cup ClassValues
    \cup { <<P("{"), P("}")>>,
           <<Word(<<"n","o">>), Ws, Word(<<"m","a","n","g","r","o","v","e","s">>)>>,
           <<P("}"), P("{")>>,
           <<>> }

\* how the model may wrap what it says: not at all, in blank lines, in a
\* fence tagged json, in a bare fence, in prose
Wrappings(b) ==
    { b,
      <<Nl>> \o b \o <<Nl>>,
      <<Fence, Word(<<"j","s","o","n">>), Nl>> \o b \o <<Nl, Fence>>,
      <<Fence, Nl>> \o b \o <<Nl, Fence>>,
      <<Word(<<"R","e","s","u","l","t">>), P(":"), Ws>> \o b
          \o <<Ws, Word(<<"d","o","n","e">>)>> }

\* the texts candidates[0].content.parts[0].text may hold
Replies == UNION {Wrappings(b) : b \in Bodies}

\* what requests.post and the reading of its body may come to: a
\* RequestException, a body without candidates[0].content.parts[0].text, or a
\* reply text
Calls ==
    {[kind |-> "failed", text |-> <<>>], [kind |-> "no_text", text |-> <<>>]}
        \cup {[kind |-> "text", text |-> t] : t \in Replies}

NoReasoning == <<"N","o"," ","r","e","a","s","o","n","i","n","g"," ",
                 "p","r","o","v","i","d","e","d",".">>

\* {"error": ...}
ErrorResult(message) == [error |-> message, classification |-> "", reasoning |-> <<>>]

\* lines 166-170 on what the extractor returned: .get of a value that is not a
\* dict, label.strip() of a true value that is not a str and
\* .strip() of a reasoning that is not a str raise AttributeError, which
\* except Exception turns into the error result
AnalyzeParsed(v) ==
    IF v.type # "dict" THEN ErrorResult("Unexpected parsing error")
    ELSE LET classification_raw == DictGet(v, KeyClassification, JStr(<<>>))
             reasoning_raw == DictGet(v, KeyReasoning, JStr(<<>>))
         IN  IF Truthy(classification_raw) /\ classification_raw.type # "str"
             THEN ErrorResult("Unexpected parsing error")
             ELSE IF reasoning_raw.type # "str"
             THEN ErrorResult("Unexpected parsing error")
             ELSE [error |-> "",
                   classification |-> IF Truthy(classification_raw)
                                      THEN NormalizeClass(classification_raw.s)
                                      ELSE "Not_relevant",
                   reasoning |-> IF StrStrip(reasoning_raw.s) = <<>>
                                 THEN NoReasoning
                                 ELSE StrStrip(reasoning_raw.s)]

\* one run of analyze_image_with_gemini, whatever the call comes to
ClassifyInit ==
    /\ ServerInit
    /\ NormalizeOff
    /\ call \in Calls
    /\ cpc = "post"
    /\ parsed = <<>>
    /\ analysis = <<>>

\* requests.post, raise_for_status, resp.json() and the reading of model_text
gemini_post ==
    /\ cpc = "post"
    /\ IF call.kind = "failed"
       THEN /\ analysis' = ErrorResult("Failed to communicate with the vision API")
            /\ cpc' = "return"
       ELSE IF call.kind = "no_text"
       THEN /\ analysis' = ErrorResult("Unexpected parsing error")
            /\ cpc' = "return"
       ELSE /\ cpc' = "parse"
            /\ UNCHANGED analysis
    /\ UNCHANGED <<call, parsed, server_vars, normalize_vars>>

\* parsed = _parse_gemini_json_text(model_text)
gemini_parse ==
    /\ cpc = "parse"
    /\ parsed' = ParseGeminiJsonText(call.text)
    /\ cpc' = "normalize"
    /\ UNCHANGED <<call, analysis, server_vars, normalize_vars>>

\* normalize + validate, and the return
gemini_normalize ==
    /\ cpc = "normalize"
    /\ analysis' = AnalyzeParsed(parsed)
    /\ cpc' = "return"
    /\ UNCHANGED <<call, parsed, server_vars, normalize_vars>>

ClassifyNext == gemini_post \/ gemini_parse \/ gemini_normalize

SpecClassify == ClassifyInit /\ [][ClassifyNext]_vars

(* ------------------------------ _normalize_class on its own ------------ *)

\* the names the prompt gives the five categories
FullNames ==
    [DEF |-> <<"D","e","f","o","r","e","s","t","a","t","i","o","n">>,
     POL |-> <<"P","o","l","l","u","t","i","o","n">>,
     ENC |-> <<"E","n","c","r","o","a","c","h","m","e","n","t">>,
     ECO |-> <<"E","c","o","l","o","g","i","c","a","l"," ","S","t","r","e","s","s">>,
     OTH |-> <<"O","t","h","e","r">>]

\* s with each space written as c
SpacesAs(s, c) == [i \in 1 .. Len(s) |-> IF s[i] = " " THEN c ELSE s[i]]

\* the spellings of s a reply may use: as given, lower or upper case, its
\* words joined by a space or a hyphen, bare or inside whitespace
Spellings(s) ==
    LET cased == {s, StrLower(s), StrUpper(s)}
        joined == cased \cup {SpacesAs(x, "-") : x \in cased}
    IN  joined \cup {<<" ">> \o x \o <<"\n">> : x \in joined}

\* phrases of the prompt's category descriptions and texts that belong to none
Phrases ==
    { <<"o","i","l"," ","s","p","i","l","l">>,
      <<"s","o","l","i","d"," ","w","a","s","t","e">>,
      <<"i","l","l","e","g","a","l"," ","c","o","n","s","t","r","u","c","t","i","o","n">>,
      <<"p","e","s","t"," ","i","n","f","e","s","t","a","t","i","o","n">>,
      <<"a","l","g","a","l"," ","b","l","o","o","m","s">>,
      <<"m","a","s","s"," ","d","i","e","-","o","f","f">>,
      <<"p","o","a","c","h","i","n","g">>,
      <<"i","l","l","e","g","a","l"," ","f","i","s","h","i","n","g">>,
      <<"N","o","t"," ","r","e","l","e","v","a","n","t">>,
      <<"s","e","l","f","i","e">>,
      <<"?","?">>,
      <<" ">> }

\* the labels _normalize_class is called with: nothing, the codes, the
\* spellings of Not_relevant, the category names, the keywords, phrases
Labels ==
    {<<>>}
        \cup UNION {Spellings(c) : c \in DirectCodes}
        \cup UNION {Spellings(s) : s \in NotRelevantSpellings}
        \cup UNION {Spellings(FullNames[c]) : c \in DOMAIN FullNames}
        \cup UNION {Spellings(w) :
                       w \in DefWords \cup PolWords \cup EncWords \cup EcoWords \cup OthWords}
        \cup UNION {Spellings(x) : x \in Phrases}

\* one call of _normalize_class, whatever its argument
NormalizeInit ==
    /\ ServerInit
    /\ ClassifyOff
    /\ label \in Labels
    /\ category = NoCategory

\* the call returns
normalize_class ==
    /\ category = NoCategory
    /\ category' = NormalizeClass(label)
    /\ UNCHANGED <<label, server_vars, classify_vars>>

SpecNormalize == NormalizeInit /\ [][normalize_class]_vars

(* ------------------------------ vocabulary of the properties ----------- *)

\* this step sends the response of route with code
Answers(route, code) == resp'.route = route /\ resp'.code = code

\* this step is a handler that ran from its start to its response
AtOnce == pc' = pc

\* this step is p's approve committing and answering 200
ApproveSucceeds(p) == pc[p] = "approve_commit" /\ Answers("approve_case", 200)

\* the reports the store holds
Persisted(d) == {i \in ImageIds : HasImage(d, i)}

\* listReports(status) as the set of report ids it returns
ListReports(d, status) == IdsOf(SelectCases(d, status))

(* ------------------------------ C1 -------------------------------------- *)

\* C1 (as claimed): an approve that succeeds on a report that was already
\* approved when the request read it awards no credit: the users table is
\* the same after its commit as before.
C1_SecondApproveAwardsNothing ==
    [][\A p \in Procs :
          (ApproveSucceeds(p) /\ seen_is_useful[p] = 1) => db'.users = db.users]_vars

(* ------------------------------ C2 -------------------------------------- *)

\* C2 (as claimed): of the approve requests that read the same report while
\* it was pending, only the one that makes the pending -> approved transition
\* awards credit: a request that read the report pending and commits after
\* another request has approved it leaves every credit_score as it was.
C2_ConcurrentApprovesAwardOnce ==
    [][\A p \in Procs :
          (/\ ApproveSucceeds(p)
           /\ seen_is_useful[p] = 0
           /\ HasImage(db, image_id[p])
           /\ db.images[image_id[p]].is_useful = 1)
          => db'.users = db.users]_vars

(* ------------------------------ C3 -------------------------------------- *)

\* C3: an approve that commits while its report R is in the store and R's
\* submitter U is a user makes R approved and U's credit_score one more than
\* it was, in that one step; no other step (the two UPDATEs before the commit,
\* a failed approve, any other handler) changes the committed status of a
\* report or the committed credit of a user; a failed approve leaves the
\* committed database as it was.
C3_ApprovalAtomic ==
    [][/\ \A p \in Procs :
              (/\ ApproveSucceeds(p)
               /\ HasImage(db, image_id[p])
               /\ HasUser(db, user_id_to_credit[p]))
              => /\ db'.images[image_id[p]].is_useful = 1
                 /\ db'.users[user_id_to_credit[p]].credit_score
                        = Coalesce(db.users[user_id_to_credit[p]].credit_score, 0) + 1
       /\ (~ \E p \in Procs : ApproveSucceeds(p))
              => /\ \A i \in Persisted(db) \cap Persisted(db') :
                        db'.images[i].is_useful = db.images[i].is_useful
                 /\ \A u \in 1 .. Len(db.users) :
                        db'.users[u].credit_score = db.users[u].credit_score
       /\ Answers("approve_case", 500) => db' = db]_vars

\* an approve has just succeeded: its report is approved and its submitter
\* holds credit
C3_Witness ==
    /\ resp.route = "approve_case"
    /\ resp.code = 200
    /\ HasImage(db, resp.body[1])
    /\ db.images[resp.body[1]].is_useful = 1
    /\ HasUser(db, resp.body[2])
    /\ CreditOf(db, resp.body[2]) >= 1

(* ------------------------------ C4 -------------------------------------- *)

\* C4: no stored report has class Not_relevant, and an upload answers with
\* the non-error acknowledgment (200) only for the class Not_relevant and
\* then leaves the database as it was.
C4_NoIrrelevantPersisted ==
    [][/\ \A i \in Persisted(db') : db'.images[i].llm_classification # "Not_relevant"
       /\ Answers("upload_image", 200)
              => (resp'.body = <<"Not_relevant">> /\ db' = db)]_vars

\* an upload has just been acknowledged as not relevant while the store
\* holds a report
C4_Witness ==
    /\ resp.route = "upload_image"
    /\ resp.code = 200
    /\ resp.body = <<"Not_relevant">>
    /\ Persisted(db) # {}

(* ------------------------------ C5 -------------------------------------- *)

\* C5: every approve that commits raises the committed credit_score of its
\* report's submitter by exactly one over the value committed immediately
\* before it, whatever other approvals have committed since it read the
\* report, and changes no other user's credit: n commits add n.
C5_NoLostCredit ==
    [][\A p \in Procs :
          ApproveSucceeds(p)
          => \A u \in 1 .. Len(db.users) :
                 CreditOf(db', u)
                     = CreditOf(db, u) + (IF u = user_id_to_credit[p] THEN 1 ELSE 0)]_vars

\* an approve has just committed a credit for a user while another approve,
\* of a different report of the same user, has read its report and is still
\* to write
C5_Witness ==
    /\ resp.route = "approve_case"
    /\ resp.code = 200
    /\ HasUser(db, resp.body[2])
    /\ \E q \in Procs :
           /\ pc[q] = "approve_update_images"
           /\ image_id[q] # resp.body[1]
           /\ user_id_to_credit[q] = resp.body[2]

(* ------------------------------ C6 -------------------------------------- *)

\* C6: a stored report's status is pending (0) or approved (1); a report
\* enters the store pending; and the status of a report that stays in the
\* store changes only from pending to approved.
C6_ReportLifecycle ==
    [][\A i \in ImageIds :
          /\ HasImage(db', i) => db'.images[i].is_useful \in {0, 1}
          /\ (~HasImage(db, i) /\ HasImage(db', i)) => db'.images[i].is_useful = 0
          /\ (/\ HasImage(db, i)
              /\ HasImage(db', i)
              /\ db'.images[i].is_useful # db.images[i].is_useful)
             => (db.images[i].is_useful = 0 /\ db'.images[i].is_useful = 1)]_vars

\* a report has just been stored while another one is approved
C6_Witness ==
    /\ resp.route = "upload_image"
    /\ resp.code = 201
    /\ db.images[resp.body[1]].is_useful = 0
    /\ \E j \in Persisted(db) : db.images[j].is_useful = 1

(* ------------------------------ C7 -------------------------------------- *)

\* an id the table has handed out and holds no more: a rejected report
Rejected(d, i) == i \in ImageIds /\ i <= d.image_seq /\ ~HasImage(d, i)

\* C7: a reject that answers 200 removed a report that was there, and the
\* report is in neither listing afterwards; a rejected id never holds a
\* report again; an approve that starts on a rejected id answers 404 without
\* going on to its writes, and a reject of one never answers 200.
C7_RejectedStaysGone ==
    [][/\ \A i \in ImageIds : Rejected(db, i) => Rejected(db', i)
       /\ Answers("reject_case", 200)
              => /\ HasImage(db, resp'.body[1])
                 /\ Rejected(db', resp'.body[1])
                 /\ resp'.body[1] \notin ListReports(db', 0) \cup ListReports(db', 1)
       /\ \A p \in Procs :
              (pc[p] = "idle" /\ pc'[p] = "approve_update_images")
              => ~Rejected(db, image_id'[p])
       /\ (AtOnce /\ resp'.route = "approve_case" /\ Rejected(db, resp'.body[1]))
              => resp'.code = 404]_vars

\* an approve of a rejected report has just answered 404
C7_Witness ==
    /\ resp.route = "approve_case"
    /\ resp.code = 404
    /\ Rejected(db, resp.body[1])

(* ------------------------------ C8 -------------------------------------- *)

\* C8: an approve of an id the store does not hold answers 404 at its SELECT
\* and goes no further; a reject of such an id answers 404 (or 500 when the
\* database could not be written); either leaves the committed database
\* exactly as it was; and a 404 is only ever the answer for an id the store
\* does not hold.
C8_NotFoundLeavesStore ==
    [][/\ (AtOnce /\ resp'.route = "approve_case")
          => (resp'.code = 404 /\ ~HasImage(db, resp'.body[1]) /\ db' = db)
       /\ \A p \in Procs :
              (pc[p] = "idle" /\ pc'[p] = "approve_update_images")
              => HasImage(db, image_id'[p])
       /\ (resp'.route = "reject_case" /\ ~HasImage(db, resp'.body[1]))
          => (resp'.code \in {404, 500} /\ db' = db)
       /\ resp'.code = 404
          => (~HasImage(db, resp'.body[1]) /\ db' = db)]_vars

\* a reject has just answered 404 while the store holds a report and a
\* credited user
C8_Witness ==
    /\ resp.route = "reject_case"
    /\ resp.code = 404
    /\ Persisted(db) # {}
    /\ \E u \in 1 .. Len(db.users) : CreditOf(db, u) >= 1

(* ------------------------------ C9 -------------------------------------- *)

\* C9: the pending listing and the approved listing share no report and
\* together hold every stored report.
C9_ListingPartition ==
    /\ ListReports(db, 0) \cap ListReports(db, 1) = {}
    /\ ListReports(db, 0) \cup ListReports(db, 1) = Persisted(db)

\* a listing has just returned reports while the store holds a pending and
\* an approved one
C9_Witness ==
    /\ resp.route = "cases"
    /\ resp.code = 200
    /\ Len(resp.body) >= 1
    /\ ListReports(db, 0) # {}
    /\ ListReports(db, 1) # {}

(* ------------------------------ C10 ------------------------------------- *)

\* C10: a reject that answers 200 removes its report and changes nothing
\* else: the users table, every other report and the id counter are as they
\* were; a reject that answers otherwise, and the DELETE before the commit,
\* leave the committed database as it was.
C10_RejectFrame ==
    [][/\ Answers("reject_case", 200)
          => /\ ~HasImage(db', resp'.body[1])
             /\ db'.users = db.users
             /\ db'.image_seq = db.image_seq
             /\ \A i \in ImageIds \ {resp'.body[1]} : db'.images[i] = db.images[i]
       /\ (resp'.route = "reject_case" /\ resp'.code # 200) => db' = db
       /\ \A p \in Procs : pc'[p] = "reject_commit" => db' = db]_vars

\* a reject has just succeeded, a user holds credit and no approved report is
\* left: the report that earned the credit is gone and the credit is not
C10_Witness ==
    /\ resp.route = "reject_case"
    /\ resp.code = 200
    /\ \E u \in 1 .. Len(db.users) : CreditOf(db, u) >= 1
    /\ ListReports(db, 1) = {}
    /\ Persisted(db) # {}

(* ------------------------------ C11 ------------------------------------- *)

\* C11: no step of any operation (registration, upload, listing, approve,
\* reject) lowers a user's committed credit_score or removes the user, and
\* the committed credit_score of a user changes only in the step in which an
\* approve commits whose SELECT attributed its report to that user.
C11_CreditMonotonic ==
    [][\A u \in 1 .. Len(db.users) :
          /\ HasUser(db', u)
          /\ CreditOf(db', u) >= CreditOf(db, u)
          /\ CreditOf(db', u) # CreditOf(db, u)
                 => \E p \in Procs : ApproveSucceeds(p) /\ user_id_to_credit[p] = u]_vars

\* a user has been credited twice and one of the user's reports has since
\* been rejected, the rejection just answered
C11_Witness ==
    /\ resp.route = "reject_case"
    /\ resp.code = 200
    /\ Rejected(db, resp.body[1])
    /\ \E u \in 1 .. Len(db.users) : CreditOf(db, u) >= 2

(* ------------------------------ C12 ------------------------------------- *)

\* C12: whenever the model call delivered a reply text, whatever the text,
\* analyze_image_with_gemini returns a classification that is one of the six
\* codes, with a reasoning, and not an error result.
C12_ReplyNeverAnError ==
    (cpc = "return" /\ call.kind = "text")
        => /\ analysis.error = ""
           /\ analysis.classification \in ALLOWED_CLASSES

(* ------------------------------ C13 ------------------------------------- *)

\* C13: whatever string _normalize_class is called with, the empty string
\* and arbitrary text included, it returns, and what it returns is one of the
\* six codes DEF, POL, ENC, ECO, OTH, Not_relevant.
C13_NormalizerTotal ==
    category # NoCategory => category \in ALLOWED_CLASSES

\* the normaliser has returned for a text that is no code, no spelling of
\* Not_relevant and holds no keyword
C13_Witness ==
    /\ label = <<"?","?">>
    /\ category = "Not_relevant"

(* ------------------------------ C14 ------------------------------------- *)

\* C14: a label that spells the name the prompt gives a category
\* (Deforestation, Pollution, Encroachment, Ecological Stress, Other), in
\* any letter case, with spaces or hyphens, is normalised to that category's
\* code.
C14_FullNamesKeepCode ==
    \A c \in DOMAIN FullNames :
        (label \in Spellings(FullNames[c]) /\ category # NoCategory) => category = c

(* ------------------------------ C15 ------------------------------------- *)

\* C15: whatever a concurrent reject of the same report does, an approve
\* that answers 200 and whose commit changes the users table leaves its
\* report in the committed images table with is_useful = 1: no credit is
\* committed for a report the status UPDATE did not find.
C15_NoCreditForDeletedReport ==
    [][\A p \in Procs :
          (ApproveSucceeds(p) /\ db'.users # db.users)
              => /\ HasImage(db', image_id[p])
                 /\ db'.images[image_id[p]].is_useful = 1]_vars

(* ------------------------------ C16 ------------------------------------- *)

\* C16: in every reachable state the captured_by_userid of each row of the
\* committed images table is the userid of a row of the users table.
C16_ReportsHaveSubmitters ==
    \A i \in Persisted(db) : HasUser(db, db.images[i].captured_by_userid)

====
